---------------------------- MODULE Spec2Model ----------------------------
(***************************************************************************)
(* Model of serverless-kubeless: the deploy operation of                   *)
(* src/deploy/kubelessDeploy.js (resource building, diff against the       *)
(* cluster listing, create / update / skip, readiness polling, ingress     *)
(* provisioning and the batch result).                                     *)
(*                                                                         *)
(* Every callback of the source is one action.  A promise continuation     *)
(* that needs no further input from the cluster (the .catch/.then chain of *)
(* lines 466-505) runs with the callback that settles the promise.         *)
(* Log texts are not state; the three poller logs that mark its terminal   *)
(* outcomes are counted.                                                   *)
(***************************************************************************)
EXTENDS Integers, Sequences, FiniteSets, TLC

(***************************************************************************)
(* Bounds of the model                                                     *)
(***************************************************************************)
\* timer ticks explored in a batch of two functions (all pollers together)
BatchTicks == 1
\* timer ticks explored for the poller of a single function
MaxTicks == 6
\* pod-list calls of one poller that may be outstanding at once
MaxInFlight == 2
\* pods in one pod-list response
MaxPods == 2

(***************************************************************************)
(* Program constants                                                       *)
(***************************************************************************)
\* `retries > 3` gives up
GiveUpRetriesMutant == 3 - 1
GiveUpRetries == 3
\* `restartCount > 2` fails the deployment
RestartLimitMutant == 2 + 1
RestartLimit == 2
\* `successfulCount === 2` declares the deployment stable
StableCountMutant == 2 - 1
StableCount == 2
Names == {"hello", "world"}
\* moment(): the instants, in milliseconds, at which a deployment may be
\* requested: on a whole second, or half a second later
Moments == {1000, 1500}
\* moment.milliseconds(value): the instant with its milliseconds replaced
milliseconds(instant, value) == instant - (instant % 1000) + value
Undefined == "undefined"

(***************************************************************************)
(* Inputs: function definitions (serverless.service.functions)             *)
(***************************************************************************)
\* an event {http: {path, hostname}}, {http: null}, {trigger: topic} or
\* {schedule: ...}; key is _.keys(event)[0], payload is event[key]
HttpEvent(p, h) ==
  [key |-> "http", payload |-> "object", path |-> p, hostname |-> h,
   trigger |-> Undefined]
HttpEventNoPayload ==
  [key |-> "http", payload |-> "null", path |-> Undefined,
   hostname |-> Undefined, trigger |-> Undefined]
TriggerEvent(t) ==
  [key |-> "trigger", payload |-> "string", path |-> Undefined,
   hostname |-> Undefined, trigger |-> t]
OtherEvent ==
  [key |-> "schedule", payload |-> "string", path |-> Undefined,
   hostname |-> Undefined, trigger |-> Undefined]

Events ==
  { HttpEvent("/", ""), HttpEvent("/hello", ""), HttpEvent("", "example.com"),
    HttpEventNoPayload, TriggerEvent("topic"), TriggerEvent(""), OtherEvent }

\* a function definition: handler ("" when absent), description, events
FunctionDef(h, d, evs) == [handler |-> h, description |-> d, events |-> evs]

FunctionDefs ==
  { FunctionDef("", "", <<>>), FunctionDef("handler.hello", "", <<>>) } \cup
  { FunctionDef("handler.hello", "", <<e>>) : e \in Events }

Runtimes == {"nodejs6", "java8"}

(***************************************************************************)
(* getRuntimeFilenames: throws for a runtime that is not python, node or   *)
(* ruby                                                                    *)
(***************************************************************************)
getRuntimeFilenamesThrows(runtime) ==
  runtime \notin {"python2.7", "nodejs6", "ruby2.4"}

(***************************************************************************)
(* getFunctionDescription: the resource document, or a throw               *)
(***************************************************************************)
isEmpty(s) == s = "" \/ s = Undefined

getFunctionDescriptionThrows(eventType, eventTrigger) ==
  CASE eventType = "http" -> FALSE
    [] eventType = "trigger" -> isEmpty(eventTrigger)
    [] OTHER -> TRUE

getFunctionDescription(funcName, runtime, funcContent, handler, desc, eventType, eventTrigger) ==
  [ metadata |-> [ name |-> funcName,
                   annotations |-> IF desc # "" THEN desc ELSE Undefined ],
    spec |-> [ function |-> funcContent,
               handler |-> handler,
               runtime |-> runtime,
               type |-> IF eventType = "http" THEN "HTTP" ELSE "PubSub",
               topic |-> IF eventType = "http" THEN Undefined
                         ELSE eventTrigger ] ]

\* `events`: description.events, or [{ http: { path: '/' } }] when empty
EventsOf(description) ==
  IF description.events # <<>> THEN description.events
  ELSE << HttpEvent("/", Undefined) >>

\* the one event of a function (validate rejects more than one)
EventOf(description) == EventsOf(description)[1]

\* the document built for function `name` in this pass
FuncsOf(name, description, runtime, content) ==
  getFunctionDescription(name, runtime, content, description.handler,
                         description.description,
                         EventOf(description).key,
                         EventOf(description).trigger)

(***************************************************************************)
(* The diff of lines 440-465                                               *)
(***************************************************************************)
existingFunction(functionsInfo, funcs) ==
  \E item \in functionsInfo : item.metadata.name = funcs.metadata.name

existingSameFunctionMutant(functionsInfo, funcs) ==
  \E item \in functionsInfo : item = funcs

existingSameFunction(functionsInfo, funcs) ==
  \E item \in functionsInfo :
     /\ item.metadata.name = funcs.metadata.name
     /\ item.spec = funcs.spec

DeploymentPathMutant(functionsInfo, funcs, force) ==
  IF existingSameFunction(functionsInfo, funcs) THEN "skip"
  ELSE IF force THEN "update"
  ELSE "create"

DeploymentPathUnforced(functionsInfo, funcs, force) ==
  IF existingSameFunction(functionsInfo, funcs) THEN "skip"
  ELSE IF existingFunction(functionsInfo, funcs) THEN "update"
  ELSE "create"

DeploymentPath(functionsInfo, funcs, force) ==
  IF existingSameFunction(functionsInfo, funcs) THEN "skip"
  ELSE IF existingFunction(functionsInfo, funcs) /\ force THEN "update"
  ELSE "create"

(***************************************************************************)
(* addIngressRuleIfNecessary: the condition of lines 362-365               *)
(***************************************************************************)
IngressNecessaryMutant(eventType, eventPath, eventHostname) ==
  /\ eventType = "http"
  /\ (~isEmpty(eventPath) \/ ~isEmpty(eventHostname))

IngressNecessary(eventType, eventPath, eventHostname) ==
  /\ eventType = "http"
  /\ ((~isEmpty(eventPath) /\ eventPath # "/") \/ ~isEmpty(eventHostname))

\* provider.hostname || event[eventType].hostname
HostnameOf(providerHostname, event) ==
  IF ~isEmpty(providerHostname) THEN providerHostname ELSE event.hostname

(***************************************************************************)
(* Pod observations of one pod-list response (podsInfo.items)              *)
(***************************************************************************)
Pod(label, created, hasStatus, ready, restarts) ==
  [ function |-> label, creationTimestamp |-> created,
    containerStatuses |-> hasStatus, ready |-> ready,
    restartCount |-> restarts ]

OtherName(funcName) == CHOOSE n \in Names : n # funcName

\* the pods a listing may show to the poller of funcName started at moment
\* t, a whole second; creationTimestamp is written to the second
PodUniverse(funcName, t) ==
  << Pod(funcName, t, TRUE, TRUE, 0),
     Pod(funcName, t, TRUE, FALSE, 2),
     Pod(funcName, t, TRUE, FALSE, 3),
     Pod(funcName, t, TRUE, TRUE, 3),
     Pod(funcName, t, FALSE, FALSE, 0),
     Pod(funcName, t - 1000, TRUE, FALSE, 3),
     Pod(funcName, t - 1000, TRUE, TRUE, 0),
     Pod(OtherName(funcName), t, TRUE, FALSE, 3) >>

\* the listings of at most MaxPods different pods; the poller does not
\* depend on the order of the pods, so one order of each listing is enough
PodLists(funcName, t) ==
  LET universe == PodUniverse(funcName, t)
      sorted == { s \in UNION { [1..k -> 1..Len(universe)] : k \in 0..MaxPods } :
                    \A i \in 1..(Len(s) - 1) : s[i] < s[i + 1] }
  IN { [i \in 1..Len(s) |-> universe[s[i]]] : s \in sorted }

IsFunctionPodMutant(pod, funcName, requestMoment) ==
  pod.function = funcName

\* lines 245-252
IsFunctionPod(pod, funcName, requestMoment) ==
  /\ pod.function = funcName
  /\ pod.creationTimestamp >= requestMoment

functionPods(items, funcName, requestMoment) ==
  SelectSeq(items, LAMBDA pod : IsFunctionPod(pod, funcName, requestMoment))

\* lines 261-263
IsRunning(pod) == pod.containerStatuses /\ pod.ready

\* lines 264: the else branch of the readiness test
IsFailed(pod) ==
  pod.containerStatuses /\ ~pod.ready /\ pod.restartCount > RestartLimit

\* lines 259-270: the pods counted as running, and those logged as failed
runningPods(pods) == Len(SelectSeq(pods, IsRunning))
failedPods(pods) == Len(SelectSeq(pods, IsFailed))

clearIntervalMutant(timer) == timer

\* clearInterval(loop)
clearInterval(timer) == IF timer = "on" THEN "cleared" ELSE timer

\* what one response showed of the function's pods, kept to state the
\* poller's properties: whether there were pods and all of them reported a
\* ready container, whether one of them had a restart count above 2, and
\* whether one that was not ready had
Observation(kind, pods) ==
  LET idx == 1..Len(pods)
      withStatus == { i \in idx : pods[i].containerStatuses }
  IN [ kind |-> kind,
       allReady |-> /\ kind = "pods"
                    /\ \A i \in idx : pods[i].containerStatuses /\ pods[i].ready,
       restarted |-> \E i \in withStatus : pods[i].restartCount > 2,
       restartedNotReady |->
         \E i \in withStatus : ~pods[i].ready /\ pods[i].restartCount > 2 ]

AllReady(obs) == obs.allReady

NoObservation == Observation("none", <<>>)

\* what a listing held for the poller of funcName, kept to state the
\* poller's properties: "nothing" for no pod at all; "foreign" when every pod
\* is of another function or has a creationTimestamp before requestMoment;
\* "early" when every pod is of another function or has a creationTimestamp
\* before the instant `submitted` of the request, one of them not before
\* requestMoment; "own" otherwise
ViewOf(items, funcName, requestMoment, submitted) ==
  LET idx == 1..Len(items)
  IN IF items = << >> THEN "nothing"
     ELSE IF \A i \in idx : \/ items[i].function # funcName
                             \/ items[i].creationTimestamp < requestMoment
     THEN "foreign"
     ELSE IF \A i \in idx : \/ items[i].function # funcName
                             \/ items[i].creationTimestamp < submitted
     THEN "early"
     ELSE "own"

\* the poller before waitForDeployment is called
NoPoller ==
  [ timer |-> "none", requestMoment |-> 0, submitted |-> 0, retries |-> 0,
    successfulCount |-> 0, inflight |-> 0,
    successLogs |-> 0, failLogs |-> 0, giveUpLogs |-> 0,
    responses |-> 0, onlyReady |-> TRUE,
    last |-> NoObservation, view |-> "nothing" ]

\* waitForDeployment: lines 224-227, the interval is set
waitForDeployment(requestMoment) ==
  [ NoPoller EXCEPT !.timer = "on", !.requestMoment = requestMoment ]

\* the callback of core.pods.get for a listing, lines 244-296
PodsListed(p, funcName, items, verbose) ==
  LET fp == functionPods(items, funcName, p.requestMoment)
      obs == Observation(IF fp = <<>> THEN "empty" ELSE "pods", fp)
      seen == [ p EXCEPT !.inflight = @ - 1, !.responses = @ + 1,
                         !.last = obs,
                         !.view = ViewOf(items, funcName, p.requestMoment,
                                         p.submitted),
                         !.onlyReady = @ /\ AllReady(obs) ]
  IN IF fp = <<>>
     THEN [ seen EXCEPT !.retries = @ + 1 ]
     ELSE LET failed == failedPods(fp)
              afterEach ==
                [ seen EXCEPT !.failLogs = @ + failed,
                              !.timer = IF failed > 0 THEN clearInterval(@)
                                        ELSE @ ]
          IN IF runningPods(fp) = Len(fp)
             THEN IF p.successfulCount + 1 = StableCount
                  THEN [ afterEach EXCEPT !.successfulCount = @ + 1,
                                          !.successLogs = @ + 1,
                                          !.timer = clearInterval(@) ]
                  ELSE [ afterEach EXCEPT !.successfulCount = @ + 1 ]
             ELSE IF verbose
                  THEN [ afterEach EXCEPT !.successfulCount = 0 ]
                  ELSE afterEach

PodsTimedOutMutant(p) ==
  [ p EXCEPT !.inflight = @ - 1, !.responses = @ + 1,
             !.last = Observation("timeout", <<>>),
             !.view = "nothing",
             !.onlyReady = FALSE,
             !.retries = @ + 1 ]

\* the callback of core.pods.get for 'request timed out', lines 238-239
PodsTimedOut(p) ==
  [ p EXCEPT !.inflight = @ - 1, !.responses = @ + 1,
             !.last = Observation("timeout", <<>>),
             !.view = "nothing",
             !.onlyReady = FALSE ]

ExitCodeAfterMutant(code, p, funcName, items) ==
  LET fp == functionPods(items, funcName, p.requestMoment)
  IN IF fp # << >> /\ runningPods(fp) < Len(fp) THEN 1 ELSE code

\* process.exitCode = process.exitCode || 1
ExitCodeAfter(code, p, funcName, items) ==
  IF failedPods(functionPods(items, funcName, p.requestMoment)) > 0
  THEN (IF code # 0 THEN code ELSE 1)
  ELSE code

(***************************************************************************)
(* State                                                                   *)
(***************************************************************************)
VARIABLES
  functions,   \* serverless.service.functions: name -> definition
  provider,    \* serverless.service.provider: runtime, hostname
  options,     \* this.options: force, verbose
  items,       \* the function resources stored by the cluster
  pc,          \* where the chain of each function stands
  redeployed,  \* the `redeployed` local of each chain
  outcome,     \* the branch of lines 450-465 taken and the cluster's answer
  errors,      \* the `errors` list of deployFunction
  counter,     \* the `counter` of deployFunction
  result,      \* the promise returned by deployFunction
  settles,     \* calls of its resolve / reject
  calls,       \* cluster calls issued and pollers started, per function
  poller,      \* the closure of waitForDeployment, per function
  exitCode,    \* process.exitCode
  crashed,     \* an exception was thrown out of a callback
  budget,      \* timer ticks left to explore
  wallClock,   \* moment(): the instant at which a deployment is requested
  logsOp       \* KubelessLogs: its options, the cluster's pods and their
               \* logs, and the progress of printLogs

deployVars == << functions, provider, options, items, pc, redeployed, outcome,
                 errors, counter, result, settles, calls, poller, exitCode,
                 crashed, budget, wallClock >>

vars == << functions, provider, options, items, pc, redeployed, outcome,
           errors, counter, result, settles, calls, poller, exitCode,
           crashed, budget, wallClock, logsOp >>

Funcs == DOMAIN functions

\* the content of the handler file read by getFunctionContent
Content == "module.exports.hello"
OldContent == "module.exports.old"

funcs(name) == FuncsOf(name, functions[name], provider.runtime, Content)

Buildable(description) ==
  /\ description.handler # ""
  /\ ~getFunctionDescriptionThrows(EventOf(description).key,
                                   EventOf(description).trigger)

\* what the cluster may store under `name` for a definition: nothing, the
\* document of this pass, one that differs in its annotations only, or one
\* with another function text
Stored(name, description, runtime, choice) ==
  LET doc == FuncsOf(name, description, runtime, Content)
  IN CASE choice = "same" -> { doc }
       [] choice = "annotations" ->
            { [ doc EXCEPT !.metadata.annotations = "an older description" ] }
       [] choice = "spec" ->
            { FuncsOf(name, description, runtime, OldContent) }
       [] OTHER -> {}

StoredChoices(description) ==
  IF Buildable(description) THEN {"none", "same", "annotations", "spec"}
  ELSE {"none"}

NoCalls == [ list |-> 0, create |-> 0, update |-> 0, ingress |-> 0,
             poller |-> 0, pods |-> 0 ]
NoOutcome == [ path |-> "none", response |-> "none" ]
Pending == [ state |-> "pending", report |-> << >> ]

\* the logs command has not been run
NoLogs == [ pc |-> "off" ]

InitOf(names, defs, ticks) ==
  /\ functions \in [names -> FunctionDefs]
  /\ \A n \in names : functions[n] \in defs[n]
  /\ provider \in [ runtime : Runtimes, hostname : {"", "example.org"} ]
  /\ options \in [ force : BOOLEAN, verbose : BOOLEAN ]
  /\ \E choice \in [names -> {"none", "same", "annotations", "spec"}] :
       /\ \A n \in names : choice[n] \in StoredChoices(functions[n])
       /\ items = UNION { Stored(n, functions[n], provider.runtime, choice[n]) :
                            n \in names }
  /\ pc = [n \in names |-> "idle"]
  /\ redeployed = [n \in names |-> FALSE]
  /\ outcome = [n \in names |-> NoOutcome]
  /\ errors = << >>
  /\ counter = 0
  /\ result = Pending
  /\ settles = 0
  /\ calls = [n \in names |-> NoCalls]
  /\ poller = [n \in names |-> NoPoller]
  /\ exitCode = 0
  /\ crashed = FALSE
  /\ budget = ticks
  /\ wallClock \in Moments

\* a batch of two functions: every definition for the first, and for the
\* second one without handler, one with an http event and one that cannot be
\* built; the pollers are followed for BatchTicks ticks
WorldDefs ==
  { FunctionDef("", "", <<>>),
    FunctionDef("handler.hello", "", << HttpEvent("/hello", "") >>),
    FunctionDef("handler.hello", "", << OtherEvent >>) }

\* (options.verbose and the milliseconds of the request only matter to the
\* poller, which SpecPoller follows)
Init ==
  /\ InitOf(Names, [n \in Names |-> IF n = "hello" THEN FunctionDefs
                                    ELSE WorldDefs], BatchTicks)
  /\ ~options.verbose
  /\ wallClock = 1000
  /\ logsOp = NoLogs

(***************************************************************************)
(* The end of a function's chain, lines 493-505                            *)
(***************************************************************************)
BatchOutcomeMutant(errs) == [ state |-> "resolved", report |-> << >> ]

\* lines 496-503: resolve() or reject(report of the errors)
BatchOutcome(errs) ==
  IF errs = << >> THEN [ state |-> "resolved", report |-> << >> ]
  ELSE [ state |-> "rejected", report |-> errs ]

\* resolve / reject of a promise that is already settled changes nothing
Settle(promise, value) == IF promise.state = "pending" THEN value ELSE promise

FinishMutant(name, errs) ==
  /\ errors' = errs
  /\ counter' = counter + 1
  /\ pc' = [pc EXCEPT ![name] = "done"]
  /\ result' = Settle(result, BatchOutcome(errs))
  /\ settles' = settles + 1

\* lines 493-505: counter++, and the last chain to get here settles the promise
Finish(name, errs) ==
  /\ errors' = errs
  /\ counter' = counter + 1
  /\ pc' = [pc EXCEPT ![name] = "done"]
  /\ IF counter + 1 = Cardinality(Funcs)
     THEN /\ result' = Settle(result, BatchOutcome(errs))
          /\ settles' = settles + 1
     ELSE UNCHANGED << result, settles >>

SubmissionError(name) == [ kind |-> "submission", name |-> name ]
IngressError(name) == [ kind |-> "ingress", name |-> name ]
RuntimeError == [ kind |-> "runtime", name |-> "" ]

(***************************************************************************)
(* addIngressRuleIfNecessary: post the rule or resolve, lines 361-390       *)
(***************************************************************************)
addIngressRuleIfNecessary(name, issued) ==
  LET event == EventOf(functions[name])
  IN IF IngressNecessary(event.key, event.path,
                         HostnameOf(provider.hostname, event))
     THEN /\ calls' = [issued EXCEPT ![name].ingress = @ + 1]
          /\ pc' = [pc EXCEPT ![name] = "ingress"]
          /\ UNCHANGED << errors, counter, result, settles >>
     ELSE /\ Finish(name, errors)
          /\ calls' = issued

(***************************************************************************)
(* The continuation of the deployment promise, lines 466-489: `deployed`   *)
(* is what it resolved with, `errs` the errors after the catch of line 466 *)
(* and `issued` the calls made so far                                      *)
(***************************************************************************)
DeploymentSettled(name, deployed, errs, issued) ==
  IF ~deployed \/ redeployed[name]
  THEN /\ Finish(name, errs)
       /\ calls' = issued
  ELSE IF EventOf(functions[name]).payload = "null"
       THEN \* event[eventType] has no path: the throw is caught at line 490
            /\ Finish(name, Append(errs, IngressError(name)))
            /\ calls' = issued
       ELSE addIngressRuleIfNecessary(name, issued)

(***************************************************************************)
(* deployFunction: the executor of the returned promise, lines 396-516     *)
(***************************************************************************)
deployFunction ==
  /\ ~crashed
  /\ \A n \in Funcs : pc[n] = "idle"
  /\ IF /\ getRuntimeFilenamesThrows(provider.runtime)
        /\ \E n \in Funcs : functions[n].handler # ""
     THEN \* the throw of getRuntimeFilenames rejects the promise
          /\ pc' = [n \in Funcs |-> "aborted"]
          /\ result' = Settle(result, [ state |-> "rejected",
                                        report |-> << RuntimeError >> ])
          /\ settles' = settles + 1
     ELSE /\ pc' = [n \in Funcs |->
                      IF functions[n].handler # "" THEN "reading"
                      ELSE "nohandler"]
          /\ UNCHANGED << result, settles >>
  /\ UNCHANGED << functions, provider, options, items, redeployed, outcome,
                  errors, counter, calls, poller, exitCode, crashed, budget >>

(***************************************************************************)
(* The continuation of the two file reads, lines 415-437: build the        *)
(* document and list the stored functions                                  *)
(***************************************************************************)
BuildAndList(name) ==
  /\ ~crashed
  /\ pc[name] = "reading"
  /\ LET event == EventOf(functions[name])
     IN IF getFunctionDescriptionThrows(event.key, event.trigger)
        THEN \* the throw rejects the inner promise, which nobody handles
             /\ pc' = [pc EXCEPT ![name] = "threw"]
             /\ UNCHANGED calls
        ELSE /\ pc' = [pc EXCEPT ![name] = "listing"]
             /\ calls' = [calls EXCEPT ![name].list = @ + 1]
  /\ UNCHANGED << functions, provider, options, items, redeployed, outcome,
                  errors, counter, result, settles, poller, exitCode,
                  crashed, budget >>

(***************************************************************************)
(* The callback of thirdPartyResources.ns.functions.get, lines 437-465,    *)
(* with the continuation of a skipped deployment                           *)
(***************************************************************************)
ListResponse(name) ==
  /\ ~crashed
  /\ pc[name] = "listing"
  /\ \E err \in BOOLEAN :
       IF err
       THEN \* if (err) throw err
            /\ crashed' = TRUE
            /\ UNCHANGED << pc, redeployed, outcome, errors, counter, result,
                            settles, calls, poller >>
       ELSE LET path == DeploymentPath(items, funcs(name), options.force)
            IN /\ crashed' = crashed
               /\ outcome' = [outcome EXCEPT ![name].path = path]
               /\ CASE path = "skip" ->
                         \* the promise resolves false
                         /\ DeploymentSettled(name, FALSE, errors, calls)
                         /\ UNCHANGED << redeployed, poller >>
                    [] path = "update" ->
                         \* redeployFunctionAndWait: requestMoment, put
                         /\ \E now \in {wallClock} :
                              poller' = [poller EXCEPT
                                           ![name].requestMoment =
                                              milliseconds(now, 0),
                                           ![name].submitted = now]
                         /\ calls' = [calls EXCEPT ![name].update = @ + 1]
                         /\ redeployed' = [redeployed EXCEPT ![name] = TRUE]
                         /\ pc' = [pc EXCEPT ![name] = "putting"]
                         /\ UNCHANGED << errors, counter, result, settles >>
                    [] OTHER ->
                         \* deployFunctionAndWait: requestMoment, post
                         /\ \E now \in {wallClock} :
                              poller' = [poller EXCEPT
                                           ![name].requestMoment =
                                              milliseconds(now, 0),
                                           ![name].submitted = now]
                         /\ calls' = [calls EXCEPT ![name].create = @ + 1]
                         /\ pc' = [pc EXCEPT ![name] = "posting"]
                         /\ UNCHANGED << redeployed, errors, counter, result,
                                         settles >>
  /\ UNCHANGED << functions, provider, options, items, exitCode, budget >>

\* the poller is started: waitForDeployment is called
StartPoller(name) ==
  [poller EXCEPT ![name] = [ waitForDeployment(poller[name].requestMoment)
                               EXCEPT !.submitted = poller[name].submitted ]]

(***************************************************************************)
(* deployFunctionAndWait: the callback of functions.post, lines 307-331    *)
(***************************************************************************)
PostResponseMutant(name) ==
  /\ ~crashed
  /\ pc[name] = "posting"
  /\ \E response \in {"ok", "conflict", "error"} :
       /\ outcome' = [outcome EXCEPT ![name].response = response]
       /\ IF response = "ok"
          THEN /\ poller' = StartPoller(name)
               /\ DeploymentSettled(name, TRUE, errors,
                                    [calls EXCEPT ![name].poller = @ + 1])
          ELSE /\ DeploymentSettled(name, FALSE,
                                    Append(errors, SubmissionError(name)),
                                    calls)
               /\ UNCHANGED poller
  /\ UNCHANGED << functions, provider, options, items, redeployed, exitCode,
                  crashed, budget >>

PostResponse(name) ==
  /\ ~crashed
  /\ pc[name] = "posting"
  /\ \E response \in {"ok", "conflict", "error"} :
       /\ outcome' = [outcome EXCEPT ![name].response = response]
       /\ CASE response = "ok" ->
                 \* waitForDeployment and resolve(true)
                 /\ poller' = StartPoller(name)
                 /\ DeploymentSettled(name, TRUE, errors,
                                      [calls EXCEPT ![name].poller = @ + 1])
            [] response = "conflict" ->
                 \* err.code === 409: resolve(false)
                 /\ DeploymentSettled(name, FALSE, errors, calls)
                 /\ UNCHANGED poller
            [] OTHER ->
                 \* reject: the error is pushed at line 467
                 /\ DeploymentSettled(name, FALSE,
                                      Append(errors, SubmissionError(name)),
                                      calls)
                 /\ UNCHANGED poller
  /\ UNCHANGED << functions, provider, options, items, redeployed, exitCode,
                  crashed, budget >>

(***************************************************************************)
(* redeployFunctionAndWait: the callback of functions(name).put,           *)
(* lines 338-349                                                           *)
(***************************************************************************)
PutResponseMutant(name) ==
  /\ ~crashed
  /\ pc[name] = "putting"
  /\ \E response \in {"ok", "error"} :
       /\ outcome' = [outcome EXCEPT ![name].response = response]
       /\ poller' = StartPoller(name)
       /\ DeploymentSettled(name, response = "ok",
                            IF response = "ok" THEN errors
                            ELSE Append(errors, SubmissionError(name)),
                            [calls EXCEPT ![name].poller = @ + 1])
  /\ UNCHANGED << functions, provider, options, items, redeployed, exitCode,
                  crashed, budget >>

PutResponse(name) ==
  /\ ~crashed
  /\ pc[name] = "putting"
  /\ \E response \in {"ok", "error"} :
       /\ outcome' = [outcome EXCEPT ![name].response = response]
       /\ IF response = "ok"
          THEN \* waitForDeployment and resolve(true)
               /\ poller' = StartPoller(name)
               /\ DeploymentSettled(name, TRUE, errors,
                                    [calls EXCEPT ![name].poller = @ + 1])
          ELSE \* reject: the error is pushed at line 467
               /\ DeploymentSettled(name, FALSE,
                                    Append(errors, SubmissionError(name)),
                                    calls)
               /\ UNCHANGED poller
  /\ UNCHANGED << functions, provider, options, items, redeployed, exitCode,
                  crashed, budget >>

(***************************************************************************)
(* The callback of extensions.ns.ingress.post, lines 371-383               *)
(***************************************************************************)
IngressResponse(name) ==
  /\ ~crashed
  /\ pc[name] = "ingress"
  /\ \E err \in BOOLEAN :
       Finish(name, IF err THEN Append(errors, IngressError(name))
                    ELSE errors)
  /\ UNCHANGED << functions, provider, options, items, redeployed, outcome,
                  calls, poller, exitCode, crashed, budget >>

(***************************************************************************)
(* waitForDeployment: one firing of the interval, lines 227-236            *)
(***************************************************************************)
Tick(name) ==
  /\ ~crashed
  /\ budget > 0
  /\ poller[name].timer = "on"
  /\ IF poller[name].retries > GiveUpRetries
     THEN /\ poller' = [poller EXCEPT ![name].giveUpLogs = @ + 1,
                                      ![name].timer = clearInterval(@)]
          /\ UNCHANGED calls
     ELSE /\ poller[name].inflight < MaxInFlight
          /\ poller' = [poller EXCEPT ![name].inflight = @ + 1]
          /\ calls' = [calls EXCEPT ![name].pods = @ + 1]
  /\ budget' = budget - 1
  /\ UNCHANGED << functions, provider, options, items, pc, redeployed,
                  outcome, errors, counter, result, settles, exitCode,
                  crashed >>

(***************************************************************************)
(* waitForDeployment: the callback of core.pods.get, lines 236-297         *)
(***************************************************************************)
PodsResponse(name) ==
  /\ ~crashed
  /\ poller[name].inflight > 0
  /\ \/ \* 'request timed out'
        /\ poller' = [poller EXCEPT ![name] = PodsTimedOut(@)]
        /\ UNCHANGED << exitCode, crashed >>
     \/ \* any other error (throw err), or a listed pod without labels, whose
        \* labels.function is a TypeError at line 248
        /\ crashed' = TRUE
        /\ UNCHANGED << poller, exitCode >>
     \/ \E podsInfo \in PodLists(name, poller[name].requestMoment) :
          /\ poller' = [poller EXCEPT
                          ![name] = PodsListed(@, name, podsInfo,
                                               options.verbose)]
          /\ exitCode' = ExitCodeAfter(exitCode, poller[name], name, podsInfo)
          /\ UNCHANGED crashed
  /\ UNCHANGED << functions, provider, options, items, pc, redeployed,
                  outcome, errors, counter, result, settles, calls, budget >>

\* the steps of the deploy command; the logs command does not run
Next ==
  \/ deployFunction /\ UNCHANGED << logsOp, wallClock >>
  \/ \E name \in Funcs : BuildAndList(name) /\ UNCHANGED << logsOp, wallClock >>
  \/ \E name \in Funcs : ListResponse(name) /\ UNCHANGED << logsOp, wallClock >>
  \/ \E name \in Funcs : PostResponse(name) /\ UNCHANGED << logsOp, wallClock >>
  \/ \E name \in Funcs : PutResponse(name) /\ UNCHANGED << logsOp, wallClock >>
  \/ \E name \in Funcs : IngressResponse(name) /\ UNCHANGED << logsOp, wallClock >>
  \/ \E name \in Funcs : Tick(name) /\ UNCHANGED << logsOp, wallClock >>
  \/ \E name \in Funcs : PodsResponse(name) /\ UNCHANGED << logsOp, wallClock >>

Spec == Init /\ [][Next]_vars

\* the deployment of one function with an http event that starts a poller:
\* created when the cluster stores nothing under its name, or replaced by a
\* forced redeploy of a changed function
PollerDefs == { FunctionDef("handler.hello", "", << HttpEvent("/hello", "") >>) }

InitPoller ==
  /\ InitOf({"hello"}, [n \in {"hello"} |-> PollerDefs], MaxTicks)
  /\ provider = [ runtime |-> "nodejs6", hostname |-> "" ]
  /\ \/ items = {} /\ ~options.force
     \/ items # {} /\ ~existingSameFunction(items, funcs("hello"))
                   /\ options.force
  /\ logsOp = NoLogs

SpecPoller == InitPoller /\ [][Next]_vars

(***************************************************************************)
(* KubelessLogs (src/logs/kubelessLogs.js): the text of a log              *)
(***************************************************************************)
MaxLines == 3
MaxCount == 4
MaxChunks == 1

\* a line of a log.  `level` stands for its text ("" for an empty line);
\* `stamp` says whether it carries a timestamp DD/MMM/YYYY:HH:mm:ss with a
\* zone written +dddd ("plus") or -dddd ("minus"), and `time` is the instant
\* that timestamp denotes
Line(level, stamp, time) == [ level |-> level, stamp |-> stamp, time |-> time ]
EmptyLine == Line("", "none", 0)
Lines ==
  { EmptyLine, Line("ERROR", "none", 0), Line("INFO", "plus", 1),
    Line("ERROR", "plus", 3), Line("INFO", "minus", 3) }

\* a log text, by its lines: what logs.split('\n') separates
RawLogs == UNION { [1..k -> Lines] : k \in 0..MaxLines }

\* moment(): the instant at which filterLogs runs
Clock == {4}

\* --startTime: none, a duration such as '1h', or a date
NoStartTime == [ unit |-> "null", value |-> 0 ]
StartTimes == { NoStartTime, [ unit |-> "h", value |-> 1 ],
                [ unit |-> "", value |-> 2 ] }

\* _.compact: drops the empty strings
compact(array) == SelectSeq(array, LAMBDA entry : entry # EmptyLine)

\* Array.prototype.slice(start): a negative start counts from the end
slice(array, start) ==
  LET len == Len(array)
      from == IF start < 0
              THEN (IF len + start < 0 THEN 0 ELSE len + start)
              ELSE (IF start > len THEN len ELSE start)
  IN SubSeq(array, from + 1, len)

\* entry.match(opts.filter)
match(entry, filter) == entry.level = filter

\* !!opts.startTime.toString().match(/(?:m|h|d)/)
since(startTime) == startTime.unit \in {"m", "h", "d"}

\* moment().subtract(digits, unit).valueOf(), or moment(startTime).valueOf()
startMoment(startTime, now) ==
  IF since(startTime) THEN now - startTime.value ELSE startTime.value

\* the regular expression of line 93 is (<timestamp> \+dddd|-dddd): for a
\* zone written -dddd it captures the zone alone
entryDate(entry) ==
  CASE entry.stamp = "plus" -> "timestamp"
    [] entry.stamp = "minus" -> "-dddd"
    [] OTHER -> "null"

\* moment(entryDate[1], 'DD/MMM/YYYY:HH:mm:ss Z').valueOf(): the instant of
\* the timestamp; of '-dddd' alone moment keeps a day of the month and a
\* two-digit year, an instant before every log line, or an invalid date
entryMoment(entry) == IF entryDate(entry) = "timestamp" THEN entry.time ELSE 0

\* _.findIndex with the predicate of lines 92-100, counted from 0
findIndex(logEntries, start) ==
  LET hits == { i \in 1..Len(logEntries) :
                  /\ entryDate(logEntries[i]) # "null"
                  /\ entryMoment(logEntries[i]) >= start }
  IN IF hits = {} THEN 0 - 1
     ELSE (CHOOSE i \in hits : \A j \in hits : i <= j) - 1

\* filterLogs, lines 67-109
filterLogs(logs, opts, now) ==
  LET split == compact(logs)
      counted == IF opts.count # 0
                 THEN slice(split, Len(split) - opts.count)
                 ELSE split
      filtered == IF opts.filter # ""
                  THEN SelectSeq(counted, LAMBDA entry : match(entry, opts.filter))
                  ELSE counted
      logIndex == findIndex(filtered, startMoment(opts.startTime, now))
  IN IF opts.startTime # NoStartTime
     THEN (IF logIndex > 0 - 1 THEN slice(filtered, logIndex) ELSE << >>)
     ELSE filtered

\* String.prototype.trim on a chunk: the empty lines at both ends go
RECURSIVE trimStart(_)
trimStart(logs) ==
  IF logs # << >> /\ Head(logs) = EmptyLine THEN trimStart(Tail(logs))
  ELSE logs
RECURSIVE trimEnd(_)
trimEnd(logs) ==
  IF logs # << >> /\ logs[Len(logs)] = EmptyLine
  THEN trimEnd(SubSeq(logs, 1, Len(logs) - 1))
  ELSE logs
trim(logs) == trimEnd(trimStart(logs))

(***************************************************************************)
(* KubelessLogs.printLogs, lines 121-174                                   *)
(***************************************************************************)
\* a pod of the namespace: its name and metadata.labels.function; `labels`
\* is Undefined for a pod whose metadata has no labels
LogPod(name, labels) == [ name |-> name, labels |-> labels ]
LogPods ==
  { LogPod("hello-1", "hello"), LogPod("hello-2", "hello"),
    LogPod("world-1", "world"), LogPod("bare", Undefined) }
PodNames == { pod.name : pod \in LogPods }

\* podsInfo.items: the pods of the namespace, in the order of the listing
PodsInfos ==
  { list \in UNION { [1..k -> LogPods] : k \in 0..MaxPods } :
      \A i, j \in 1..Len(list) : i # j => list[i] # list[j] }

\* the log the cluster holds for each pod
PodText ==
  [ name \in PodNames |->
      CASE name = "hello-1" -> << Line("INFO", "plus", 1), Line("ERROR", "plus", 3) >>
        [] name = "hello-2" -> << Line("ERROR", "none", 0) >>
        [] name = "world-1" -> << Line("INFO", "plus", 3) >>
        [] OTHER -> << >> ]

Unsettled == [ state |-> "pending", value |-> << >>, error |-> "" ]

\* the logs command before printLogs is called
LogsStart(opts, now, podItems, text) ==
  [ pc |-> "idle", options |-> opts, now |-> now, items |-> podItems,
    text |-> text, pending |-> {}, streams |-> {}, fetches |-> 0,
    requests |-> 0, result |-> Unsettled, settles |-> 0,
    resolvedBy |-> "", printed |-> << >>, prints |-> 0, chunks |-> 0,
    crashed |-> FALSE ]

\* _.filter(podsInfo.items, podInfo => labels.function === options.function)
functionPodsOf(podItems, funcName) ==
  SelectSeq(podItems, LAMBDA podInfo : podInfo.labels = funcName)

\* podInfo.metadata.labels.function of a pod without labels is a TypeError
filterPodsThrows(podItems) ==
  \E i \in 1..Len(podItems) : podItems[i].labels = Undefined

\* printFilteredLogs, lines 111-119: console.log of a non-empty result
printFilteredLogs(op, logs) ==
  LET filteredLogs == filterLogs(logs, op.options, op.now)
  IN IF filteredLogs # << >>
     THEN [ op EXCEPT !.printed = filteredLogs, !.prints = @ + 1 ]
     ELSE op

\* printLogs: the executor of the returned promise lists the pods
printLogs ==
  /\ logsOp.pc = "idle"
  /\ logsOp' = [ logsOp EXCEPT !.pc = "listing" ]
  /\ UNCHANGED deployVars

\* the callback of core.ns.pods.get, lines 134-172
PodsGetResponse ==
  /\ logsOp.pc = "listing"
  /\ ~logsOp.crashed
  /\ \E err \in BOOLEAN :
       LET matching == functionPodsOf(logsOp.items, logsOp.options.function)
           names == { matching[i].name : i \in 1..Len(matching) }
       IN IF err
          THEN \* throw new Error(err)
               logsOp' = [ logsOp EXCEPT !.pc = "failed", !.crashed = TRUE ]
          ELSE IF filterPodsThrows(logsOp.items)
          THEN \* the TypeError leaves the callback
               logsOp' = [ logsOp EXCEPT !.pc = "listed", !.crashed = TRUE ]
          ELSE IF matching = << >>
          THEN logsOp' = [ logsOp EXCEPT
                 !.pc = "listed",
                 !.result = Settle(@, [ Unsettled EXCEPT
                                          !.state = "rejected",
                                          !.error = "Unable to find the pod" ]),
                 !.settles = @ + 1 ]
          ELSE IF logsOp.options.tail
          THEN logsOp' = [ logsOp EXCEPT !.pc = "listed", !.streams = names,
                                        !.requests = Len(matching) ]
          ELSE logsOp' = [ logsOp EXCEPT !.pc = "listed", !.pending = names,
                                        !.fetches = Len(matching) ]
  /\ UNCHANGED deployVars

\* the callback of core.ns.pods(name).log.get, lines 164-168
LogGetResponse(name) ==
  /\ ~logsOp.crashed
  /\ name \in logsOp.pending
  /\ \E errLog \in BOOLEAN :
       IF errLog
       THEN logsOp' = [ logsOp EXCEPT !.pending = @ \ {name},
                                     !.crashed = TRUE ]
       ELSE LET printed == printFilteredLogs(logsOp, logsOp.text[name])
                filteredLogs == filterLogs(logsOp.text[name], logsOp.options,
                                           logsOp.now)
            IN logsOp' = [ printed EXCEPT
                 !.pending = @ \ {name},
                 !.result = Settle(@, [ Unsettled EXCEPT
                                          !.state = "resolved",
                                          !.value = filteredLogs ]),
                 !.resolvedBy = IF @ = "" THEN name ELSE @,
                 !.settles = @ + 1 ]
  /\ UNCHANGED deployVars

\* .on('data') of a followed log, lines 158-161
StreamData(name) ==
  /\ ~logsOp.crashed
  /\ name \in logsOp.streams
  /\ logsOp.chunks < MaxChunks
  /\ logsOp' = [ printFilteredLogs(logsOp, trim(logsOp.text[name]))
                   EXCEPT !.chunks = @ + 1 ]
  /\ UNCHANGED deployVars

NextLogs ==
  \/ printLogs
  \/ PodsGetResponse
  \/ \E name \in PodNames : LogGetResponse(name)
  \/ \E name \in PodNames : StreamData(name)

\* --count, --filter, --startTime, --tail and --function of the command
LogOptions ==
  [ function : {"hello"}, tail : BOOLEAN, count : 0..MaxCount,
    filter : {"", "ERROR"}, startTime : StartTimes ]

\* the deploy command does not run
InitIdle ==
  /\ InitOf({"hello"}, [n \in {"hello"} |-> PollerDefs], 0)
  /\ provider = [ runtime |-> "nodejs6", hostname |-> "" ]
  /\ options = [ force |-> FALSE, verbose |-> FALSE ]
  /\ items = {}
  /\ wallClock = 1000

\* the logs command, either on one pod of the function with every log and
\* every combination of options, or on every listing of the namespace with
\* the logs of PodText and the pattern filter
InitLogs ==
  /\ InitIdle
  /\ \/ logsOp \in { LogsStart(opts, now, << LogPod("hello-1", "hello") >>,
                               [ PodText EXCEPT !["hello-1"] = logs ]) :
                       opts \in LogOptions, now \in Clock, logs \in RawLogs }
     \/ logsOp \in { LogsStart(opts, now, podItems, PodText) :
                       opts \in { o \in LogOptions :
                                    o.count = 0 /\ o.startTime = NoStartTime },
                       now \in Clock, podItems \in PodsInfos }

SpecLogs == InitLogs /\ [][NextLogs]_vars

(***************************************************************************)
(* Properties                                                              *)
(***************************************************************************)
\* the resources the cluster stores under the name of a function
StoredUnder(name) == { item \in items : item.metadata.name = name }
SameSpecStored(name) ==
  \E item \in StoredUnder(name) : item.spec = funcs(name).spec
OtherSpecStored(name) ==
  /\ StoredUnder(name) # {}
  /\ \A item \in StoredUnder(name) : item.spec # funcs(name).spec
ErrorsOf(name) == { i \in 1..Len(errors) : errors[i].name = name }
Diffed(name) == outcome[name].path # "none"

\* C1: a function whose name matches a stored resource with a deeply equal
\* spec payload, whatever its metadata, gets no create call, no update call,
\* no readiness poller and no ingress call.
C1_Skip ==
  \A n \in Funcs :
    SameSpecStored(n) =>
      /\ calls[n].create = 0 /\ calls[n].update = 0
      /\ calls[n].poller = 0 /\ calls[n].ingress = 0
      /\ poller[n].timer = "none"

C1_Witness ==
  \E n \in Funcs :
    /\ SameSpecStored(n)
    /\ \E item \in StoredUnder(n) : item.metadata # funcs(n).metadata
    /\ outcome[n].path = "skip"
    /\ pc[n] = "done"

\* C2 as stated: with a stored resource of the same name and another spec
\* payload and no force flag, the function fails at the diff: no create call,
\* no update call, no poller, no ingress call, and a recorded failure.
C2_Original ==
  \A n \in Funcs :
    (OtherSpecStored(n) /\ ~options.force) =>
      /\ calls[n].create = 0 /\ calls[n].update = 0
      /\ calls[n].poller = 0 /\ calls[n].ingress = 0
      /\ (pc[n] = "done" => ErrorsOf(n) # {})

\* C2 amended: with a stored resource of the same name and another spec
\* payload and no force flag, the function takes the Create path (one create
\* call, no update call); when the cluster answers the create call with the
\* conflict code, no error is recorded for the function and no poller and no
\* ingress provisioning is started.
C2_Amended ==
  \A n \in Funcs :
    (OtherSpecStored(n) /\ ~options.force) =>
      /\ calls[n].update = 0
      /\ calls[n].create = (IF Diffed(n) THEN 1 ELSE 0)
      /\ Diffed(n) => outcome[n].path = "create"
      /\ outcome[n].response = "conflict" =>
           /\ calls[n].poller = 0 /\ calls[n].ingress = 0
           /\ poller[n].timer = "none"
           /\ ErrorsOf(n) = {}
           /\ pc[n] = "done"

C2_Witness ==
  \E n \in Funcs :
    /\ OtherSpecStored(n) /\ ~options.force
    /\ outcome[n].response = "conflict"
    /\ calls[n].create = 1
    /\ result.state = "resolved"

\* C3: once the diff of a function is made, a stored resource of the same
\* name with another spec payload and the force flag give exactly one update
\* call and no create call; no stored resource of that name gives exactly one
\* create call and no update call, whatever the force flag.
C3_ForcedUpdate ==
  \A n \in Funcs :
    /\ (OtherSpecStored(n) /\ options.force) =>
         /\ calls[n].create = 0
         /\ calls[n].update = (IF Diffed(n) THEN 1 ELSE 0)
    /\ (StoredUnder(n) = {}) =>
         /\ calls[n].update = 0
         /\ calls[n].create = (IF Diffed(n) THEN 1 ELSE 0)

C3_Witness ==
  \E n, m \in Funcs :
    /\ OtherSpecStored(n) /\ options.force
    /\ calls[n].update = 1 /\ pc[n] = "done"
    /\ StoredUnder(m) = {}
    /\ calls[m].create = 1 /\ pc[m] = "done"

\* C4: while every response since the start of polling showed a non-empty
\* set of the function's pods, all of them ready, the poller is not Stable
\* after the first response and is Stable from the second on: success is
\* logged once and the timer is cleared.
C4_StableOnSecond ==
  \A n \in Funcs :
    (poller[n].onlyReady /\ poller[n].responses >= 1) =>
      IF poller[n].responses = 1
      THEN poller[n].successLogs = 0 /\ poller[n].timer = "on"
      ELSE poller[n].successLogs = 1 /\ poller[n].timer = "cleared"

C4_Witness ==
  \E n \in Funcs :
    /\ poller[n].onlyReady /\ poller[n].responses = 2
    /\ poller[n].successLogs = 1 /\ poller[n].timer = "cleared"

\* C5 as stated: verbose or not, a response that shows a non-empty set of
\* the function's pods, not all of them ready, leaves the stability counter
\* at 0.
C5_Original ==
  [][ \A n \in Funcs :
        ( /\ poller'[n].responses = poller[n].responses + 1
          /\ poller'[n].last.kind = "pods"
          /\ ~poller'[n].last.allReady ) =>
        poller'[n].successfulCount = 0 ]_vars

\* C6 as stated: after a response whose pods include one with a restart
\* count above 2, the poller has failed: ERROR is logged, the exit code is
\* not 0 and the timer is cleared.
C6_Original ==
  \A n \in Funcs :
    poller[n].last.restarted =>
      /\ poller[n].failLogs > 0
      /\ exitCode # 0
      /\ poller[n].timer = "cleared"

\* C6 amended: a response whose pods include one that is not ready and has a
\* restart count above 2 makes the poller fail in that same step, whatever
\* the readiness of the other pods: ERROR is logged, the exit code is not 0
\* and the timer is cleared.
C6_Amended ==
  [][ \A n \in Funcs :
        ( /\ poller'[n].responses = poller[n].responses + 1
          /\ poller'[n].last.restartedNotReady ) =>
        ( /\ poller'[n].failLogs > poller[n].failLogs
          /\ exitCode' # 0
          /\ poller'[n].timer # "on" ) ]_vars

C6_Witness ==
  \E n \in Funcs :
    /\ poller[n].last.restartedNotReady
    /\ poller[n].responses = 1
    /\ poller[n].failLogs = 1
    /\ exitCode = 1
    /\ poller[n].timer = "cleared"

\* C7: a poller that has given up has seen more than 3 empty responses and
\* its timer is cleared; the step that gives up is a tick that lists no pods
\* and changes neither the exit code nor the batch errors; and a tick of a
\* poller with more than 3 empty responses gives up.
C7_GiveUp ==
  /\ [](\A n \in Funcs :
          poller[n].giveUpLogs > 0 =>
            /\ poller[n].retries > 3
            /\ poller[n].giveUpLogs = 1
            /\ poller[n].timer = "cleared")
  /\ [][ \A n \in Funcs :
           /\ poller'[n].giveUpLogs # poller[n].giveUpLogs =>
                /\ exitCode' = exitCode
                /\ errors' = errors
                /\ calls' = calls
           /\ ( /\ budget' # budget
                /\ poller'[n] # poller[n]
                /\ poller[n].retries > 3 ) =>
                poller'[n].giveUpLogs = poller[n].giveUpLogs + 1 ]_vars

C7_Witness ==
  \E n \in Funcs :
    /\ poller[n].giveUpLogs = 1
    /\ poller[n].retries = 4
    /\ poller[n].timer = "cleared"
    /\ exitCode = 0

\* C8 as stated: an ingress call is issued for a function only after its
\* readiness poller has logged success.
C8_Original ==
  \A n \in Funcs : calls[n].ingress > 0 => poller[n].successLogs > 0

\* whether an event asks for a rule: http, with a path other than "" and "/"
\* or with a hostname given by the provider or by the event
AsksForRule(event) ==
  /\ event.key = "http"
  /\ \/ event.path \notin {"", "/", Undefined}
     \/ provider.hostname \notin {"", Undefined}
     \/ event.hostname \notin {"", Undefined}

\* C9: an ingress call is issued at most once for a function, and only when
\* its create call succeeded in this pass and its event asks for a rule; a
\* function with nothing stored under its name, an http event of path "/"
\* and no hostname, whose create call succeeded, ends with exactly one create
\* call, one poller start and no ingress call.
C9_IngressNecessity ==
  \A n \in Funcs :
    /\ calls[n].ingress <= 1
    /\ calls[n].ingress > 0 =>
         /\ outcome[n] = [ path |-> "create", response |-> "ok" ]
         /\ calls[n].create = 1
         /\ AsksForRule(EventOf(functions[n]))
    /\ ( /\ StoredUnder(n) = {}
         /\ functions[n].handler # ""
         /\ functions[n].events \in { <<>>, << HttpEvent("/", "") >> }
         /\ provider.hostname = ""
         /\ outcome[n].response = "ok" ) =>
         /\ calls[n].create = 1 /\ calls[n].update = 0
         /\ calls[n].poller = 1 /\ calls[n].ingress = 0
         /\ pc[n] = "done"

C9_Witness ==
  \E n, m \in Funcs :
    /\ calls[n].ingress = 1
    /\ StoredUnder(m) = {}
    /\ functions[m].events = << HttpEvent("/", "") >>
    /\ provider.hostname = ""
    /\ outcome[m].response = "ok"
    /\ calls[m].create = 1 /\ calls[m].poller = 1 /\ calls[m].ingress = 0
    /\ pc[m] = "done"

\* C10 as stated: once the deploy operation has completed, it has resolved
\* exactly when no error was recorded, and otherwise it has rejected once
\* with the report of every recorded error.
C10_Original ==
  result.state # "pending" =>
    /\ settles = 1
    /\ (result.state = "resolved") <=> (errors = << >>)
    /\ result.state = "rejected" => result.report = errors

\* C10 amended: once the deploy operation has completed, it has resolved
\* exactly when the runtime is supported and no error was recorded; otherwise
\* it has rejected once, with the unsupported-runtime error or with the
\* report of every recorded error.
C10_Amended ==
  result.state # "pending" =>
    /\ settles = 1
    /\ (result.state = "resolved") <=>
         (provider.runtime \in {"python2.7", "nodejs6", "ruby2.4"}
            /\ errors = << >>)
    /\ result.state = "rejected" =>
         IF provider.runtime \in {"python2.7", "nodejs6", "ruby2.4"}
         THEN result.report = errors /\ counter = Cardinality(Funcs)
         ELSE result.report = << RuntimeError >> /\ errors = << >>

C10_Witness ==
  /\ result.state = "rejected"
  /\ Len(result.report) = 2
  /\ \E i, j \in 1..2 : /\ result.report[i].kind = "submission"
                        /\ result.report[j].kind = "ingress"

\* a chain that is waiting for a file read or for the answer of a cluster call
Running(name) == pc[name] \in {"reading", "listing", "posting", "putting", "ingress"}

\* C11: the deploy operation has not completed while the chain of a function
\* is still running: at completion every chain that was started has made its
\* decision and has finished; and whatever errors other functions have
\* recorded, a function whose list call is outstanding can still get its
\* create / update / skip decision.
C11_BatchCompletion ==
  /\ result.state # "pending" =>
       \A n \in Funcs :
         /\ ~Running(n)
         /\ pc[n] # "aborted" => pc[n] = "done" /\ Diffed(n)
  /\ \A m \in Funcs :
       (pc[m] = "listing" /\ ~crashed) =>
         ENABLED (ListResponse(m) /\ outcome'[m].path # "none")

C11_Witness ==
  \E n, m \in Funcs :
    /\ n # m
    /\ result.state = "rejected"
    /\ result.report = << SubmissionError(n) >>
    /\ outcome[m].path = "create" /\ outcome[m].response = "ok"
    /\ pc[n] = "done" /\ pc[m] = "done"

\* no chain is running and nothing was thrown out of a callback: every
\* cluster call that was issued has been answered
Quiescent ==
  /\ ~crashed
  /\ \A n \in Funcs : pc[n] # "idle" /\ ~Running(n)

\* C12 as stated, in its finite form: for definitions that are skipped for
\* want of a handler or that can be built, once every cluster call has been
\* answered the deploy operation has completed, exactly once.
C12_Original ==
  ( /\ Quiescent
    /\ \E n \in Funcs : functions[n].handler # ""
    /\ \A n \in Funcs : functions[n].handler = "" \/ Buildable(functions[n]) )
  => (result.state # "pending" /\ settles = 1)

\* C17: a function's poller is started once at most, only when its create
\* or update call has been answered with success, and no ingress call is
\* issued for a function whose poller has not been started; a skipped
\* function, a create conflict and a submission error start no poller.  The
\* step that starts a poller is the step that takes the answer of the
\* create or update call.
C17_PollerStart ==
  /\ [](\A n \in Funcs :
          /\ calls[n].poller <= 1
          /\ (calls[n].poller = 0) <=> (poller[n].timer = "none")
          /\ calls[n].poller > 0 =>
               /\ outcome[n].path \in {"create", "update"}
               /\ outcome[n].response = "ok"
               /\ calls[n].create + calls[n].update = 1
          /\ calls[n].ingress > 0 => calls[n].poller > 0
          /\ ( \/ outcome[n].path = "skip"
               \/ outcome[n].response \in {"conflict", "error"} ) =>
               calls[n].poller = 0)
  /\ [][ \A n \in Funcs :
           calls'[n].poller # calls[n].poller =>
             /\ pc[n] \in {"posting", "putting"}
             /\ outcome'[n].response = "ok"
             /\ calls[n].ingress = 0 ]_vars

C17_Witness ==
  \E n \in Funcs :
    /\ outcome[n].path = "update" /\ outcome[n].response = "ok"
    /\ calls[n].poller = 1 /\ poller[n].timer = "on"
    /\ \E m \in Funcs : /\ outcome[m].path = "create"
                         /\ outcome[m].response = "ok"
                         /\ calls[m].poller = 1 /\ calls[m].ingress = 1

\* C18: a create call answered with the conflict code records no error for
\* the function, starts no poller and issues no ingress call, and a batch
\* whose only failure is a conflict resolves; any other create error and any
\* update error records exactly one error, a submission error.
C18_Conflict ==
  \A n \in Funcs :
    /\ outcome[n].response = "conflict" =>
         /\ outcome[n].path = "create"
         /\ ErrorsOf(n) = {}
         /\ calls[n].poller = 0 /\ calls[n].ingress = 0
         /\ (result.state # "pending" /\ errors = << >>) =>
              result.state = "resolved"
    /\ outcome[n].response = "error" =>
         /\ Cardinality(ErrorsOf(n)) = 1
         /\ \A i \in ErrorsOf(n) : errors[i] = SubmissionError(n)

C18_Witness ==
  \E n, m \in Funcs :
    /\ outcome[n].response = "conflict" /\ pc[n] = "done"
    /\ outcome[m].path = "update" /\ outcome[m].response = "error"
    /\ result = [ state |-> "rejected", report |-> << SubmissionError(m) >> ]

\* an event the builder refuses: a trigger without topic, or a key that is
\* neither http nor trigger
Unsupported(description) ==
  /\ description.handler # ""
  /\ \/ EventOf(description).key \notin {"http", "trigger"}
     \/ EventOf(description).key = "trigger" /\ EventOf(description).trigger = ""

\* C19 as stated: a function with an unsupported event gets no cluster call,
\* the other functions are still reconciled, and once every cluster call has
\* been answered the batch has ended in a rejection whose report holds the
\* error of that function.
C19_Original ==
  \A n \in Funcs :
    ( /\ Unsupported(functions[n])
      /\ provider.runtime \in {"python2.7", "nodejs6", "ruby2.4"} ) =>
      /\ calls[n] = NoCalls
      /\ Quiescent =>
           /\ \A m \in Funcs \ {n} : Buildable(functions[m]) => pc[m] = "done"
           /\ result.state = "rejected"
           /\ \E i \in 1..Len(result.report) : result.report[i].name = n

\* C20: the response step of a timed-out pod list changes neither the
\* empty-result counter, nor the stability counter, nor the timer, nor the
\* logs, nor the exit code; the empty-result counter only moves on an empty
\* listing; so a poller that has only seen timeouts has not given up.
C20_Timeout ==
  /\ [][ \A n \in Funcs :
           /\ ( /\ poller'[n].responses # poller[n].responses
                /\ poller'[n].last.kind = "timeout" ) =>
                /\ poller'[n].retries = poller[n].retries
                /\ poller'[n].successfulCount = poller[n].successfulCount
                /\ poller'[n].timer = poller[n].timer
                /\ poller'[n].giveUpLogs = poller[n].giveUpLogs
                /\ poller'[n].failLogs = poller[n].failLogs
                /\ poller'[n].successLogs = poller[n].successLogs
                /\ exitCode' = exitCode
           /\ poller'[n].retries # poller[n].retries =>
                /\ poller'[n].last.kind = "empty"
                /\ poller'[n].responses = poller[n].responses + 1 ]_vars
  /\ [](\A n \in Funcs :
          /\ poller[n].retries <= poller[n].responses
          /\ poller[n].giveUpLogs > 0 => poller[n].retries > 3)

C20_Witness ==
  \E n \in Funcs :
    /\ poller[n].last.kind = "timeout"
    /\ poller[n].responses = 5
    /\ poller[n].retries = 0
    /\ poller[n].timer = "on"
    /\ poller[n].giveUpLogs = 0

\* the last n entries of a list, all of them when n is at least its length
LastEntries(entries, n) ==
  IF n >= Len(entries) THEN entries
  ELSE SubSeq(entries, Len(entries) - n + 1, Len(entries))

\* the one pod of a listing of one pod
OnlyPod == logsOp.items[1].name

\* C13 as stated: with a count N >= 1, the fetch of a log of L non-empty
\* entries resolves with what the pattern and time filters make of the last
\* min(N, L) entries, in their order: the last min(N, L) entries themselves
\* when no other option is given.
C13_Original ==
  ( /\ logsOp.result.state = "resolved"
    /\ Len(logsOp.items) = 1
    /\ logsOp.options.count >= 1 ) =>
    logsOp.result.value =
      filterLogs(LastEntries(compact(logsOp.text[OnlyPod]), logsOp.options.count),
                 [ logsOp.options EXCEPT !.count = 0 ], logsOp.now)

\* the entries that carry a timestamp at or after an instant
AtOrAfter(entries, instant) ==
  { i \in 1..Len(entries) : /\ entries[i].stamp \in {"plus", "minus"}
                            /\ entries[i].time >= instant }

\* C14 as stated: with a start time, the fetch resolves with the entries
\* from the first one that carries a timestamp at or after the start instant
\* to the last one, and with nothing when no entry carries such a timestamp.
C14_Original ==
  ( /\ logsOp.result.state = "resolved"
    /\ Len(logsOp.items) = 1
    /\ logsOp.options.startTime # NoStartTime ) =>
    LET entries == filterLogs(logsOp.text[OnlyPod],
                              [ logsOp.options EXCEPT !.startTime = NoStartTime ],
                              logsOp.now)
        hits == AtOrAfter(entries, startMoment(logsOp.options.startTime, logsOp.now))
    IN logsOp.result.value =
         IF hits = {} THEN << >>
         ELSE SubSeq(entries, CHOOSE i \in hits : \A j \in hits : i <= j,
                     Len(entries))

\* C15 as stated: once the listing of the pods is answered and no pod
\* carries the function's label, the logs operation has rejected with the
\* pod-not-found error, and no log fetch and no stream request was issued.
C15_Original ==
  ( /\ logsOp.pc = "listed"
    /\ \A i \in 1..Len(logsOp.items) :
         logsOp.items[i].labels # logsOp.options.function ) =>
    /\ logsOp.result.state = "rejected"
    /\ logsOp.result.error = "Unable to find the pod"
    /\ logsOp.settles = 1
    /\ logsOp.fetches = 0 /\ logsOp.requests = 0

\* C16 as stated: in a fetch with several matching pods a log is fetched
\* for each of them, and the operation resolves with the filtered log of the
\* first matching pod of the listing, whichever response arrives first.
C16_Original ==
  LET matching == functionPodsOf(logsOp.items, logsOp.options.function)
  IN ( /\ logsOp.result.state = "resolved"
       /\ Len(matching) >= 2 ) =>
       /\ logsOp.fetches = Len(matching)
       /\ logsOp.result.value =
            filterLogs(logsOp.text[matching[1].name], logsOp.options, logsOp.now)

\* C21: the exit code is nonzero only when a poller has logged the failure
\* of the deployment; a nonzero exit code is never changed again; the step
\* that sets it is a pod-list response that logs a failure, so the answers
\* of the create and update calls, a skipped function, a success and a
\* give-up leave it alone; and no step of a poller adds to the batch errors.
C21_ExitSignal ==
  /\ [](exitCode # 0 => \E n \in Funcs : poller[n].failLogs > 0)
  /\ [][ /\ exitCode # 0 => exitCode' = exitCode
         /\ exitCode' # exitCode =>
              \E n \in Funcs : /\ poller'[n].failLogs > poller[n].failLogs
                               /\ poller'[n].responses = poller[n].responses + 1
         /\ (\E n \in Funcs : poller[n].timer = "on" /\ poller'[n] # poller[n])
              => errors' = errors
         /\ (\E n \in Funcs : \/ poller'[n].successLogs # poller[n].successLogs
                              \/ poller'[n].giveUpLogs # poller[n].giveUpLogs)
              => (exitCode' = exitCode \/
                    \E n \in Funcs : poller'[n].failLogs > poller[n].failLogs)
         /\ pc' # pc => exitCode' = exitCode ]_vars

C21_Witness ==
  \E n \in Funcs :
    /\ exitCode = 1
    /\ poller[n].failLogs > 0
    /\ poller[n].timer = "cleared"
    /\ poller[n].responses >= 2
    /\ errors = << >>
    /\ result.state = "resolved"

\* C22: a poller that has logged a success, a give-up or a failure has its
\* timer cleared; a cleared timer stays cleared, and a poller whose timer is
\* cleared takes no tick: it issues no pod-list call and does not give up
\* again.
C22_TimerCleared ==
  /\ [](\A n \in Funcs :
          ( \/ poller[n].successLogs > 0
            \/ poller[n].giveUpLogs > 0
            \/ poller[n].failLogs > 0 ) => poller[n].timer = "cleared")
  /\ [][ \A n \in Funcs :
           poller[n].timer = "cleared" =>
             /\ poller'[n].timer = "cleared"
             /\ calls'[n].pods = calls[n].pods
             /\ poller'[n].inflight <= poller[n].inflight
             /\ poller'[n].giveUpLogs = poller[n].giveUpLogs ]_vars

C22_Witness ==
  \E n \in Funcs :
    /\ poller[n].successLogs = 1
    /\ poller[n].timer = "cleared"
    /\ poller[n].inflight = 0
    /\ poller[n].responses = 3
    /\ calls[n].pods = 3
    /\ budget > 0

\* C24 as stated: once a poller has its terminal state, a pod-list response
\* logs no further success or failure and leaves the exit code alone, and no
\* poller has logged both a success and a failure.
C24_Original ==
  /\ [](\A n \in Funcs : ~(poller[n].successLogs > 0 /\ poller[n].failLogs > 0))
  /\ [][ \A n \in Funcs :
           poller[n].timer = "cleared" =>
             /\ poller'[n].successLogs = poller[n].successLogs
             /\ poller'[n].failLogs = poller[n].failLogs
             /\ poller'[n].giveUpLogs = poller[n].giveUpLogs
             /\ exitCode' = exitCode ]_vars

\* a pod-list response that the poller of n treats as an empty one: it
\* counts one more empty result and changes nothing else
EmptyTick(n) ==
  /\ poller'[n].last.kind = "empty"
  /\ poller'[n].retries = poller[n].retries + 1
  /\ poller'[n].successfulCount = poller[n].successfulCount
  /\ poller'[n].successLogs = poller[n].successLogs
  /\ poller'[n].failLogs = poller[n].failLogs
  /\ poller'[n].timer = poller[n].timer
  /\ exitCode' = exitCode

\* a pod-list response of the poller of n
Responded(n) == poller'[n].responses = poller[n].responses + 1

\* C23 as stated: a listing that only holds pods of other functions and
\* pods with a creation timestamp before the instant at which the request
\* was submitted is treated as an empty one; a response counts as ready,
\* logs a failure or sets the exit code only when it lists a pod of the
\* function that is not older than that instant.
C23_Original ==
  [][ \A n \in Funcs :
        Responded(n) =>
          /\ poller'[n].view \in {"foreign", "early"} => EmptyTick(n)
          /\ ( \/ poller'[n].successfulCount # poller[n].successfulCount
               \/ poller'[n].failLogs # poller[n].failLogs
               \/ exitCode' # exitCode ) => poller'[n].view = "own" ]_vars

\* C23 amended: the same with the instant of the request cut to the whole
\* second (its milliseconds set to zero) as the limit: a listing that only
\* holds pods of other functions and pods with a creation timestamp before
\* that second is treated as an empty one, and a response counts as ready,
\* logs a failure or sets the exit code only when it lists a pod of the
\* function with a creation timestamp in or after that second.
C23_Amended ==
  [][ \A n \in Funcs :
        Responded(n) =>
          /\ poller'[n].view = "foreign" => EmptyTick(n)
          /\ ( \/ poller'[n].successfulCount # poller[n].successfulCount
               \/ poller'[n].failLogs # poller[n].failLogs
               \/ exitCode' # exitCode ) =>
               poller'[n].view \in {"own", "early"} ]_vars

C23_Witness ==
  \E n \in Funcs :
    /\ poller[n].view = "foreign"
    /\ poller[n].retries = 2
    /\ poller[n].responses = 3
    /\ poller[n].successfulCount = 1
    /\ poller[n].submitted = 1500
    /\ poller[n].requestMoment = 1000
    /\ exitCode = 0

=============================================================================
